---- MODULE Spec2Model ----
(***************************************************************************)
(* Node-side volume lifecycle of the CSI driver: the NodePublishVolume and *)
(* NodeUnpublishVolume handlers (pkg/volume/v1alpha1), the mount           *)
(* supervisor MonitorMounts and its repair workers RemountVolume (utils).  *)
(*                                                                         *)
(* Every volumeID has one target path (the orchestrator derives the path   *)
(* from the volume), so the kernel mount table is indexed by volumeID.     *)
(* A *apis.CSIVolume is an object identifier; Volumes maps a volumeID to   *)
(* the object the registry points to, DevicePath is that object's          *)
(* Spec.Volume.DevicePath field.                                           *)
(***************************************************************************)
EXTENDS Integers, FiniteSets, Sequences, TLC

\* ---------------------------------------------------------------- bounds
NumHandlers == 2
MaxWorkers == 2
MaxCount == 2

VolIds == {"v1", "v2"}
Handlers == 1..NumHandlers
Workers == 1..MaxWorkers
DevPaths == {"/dev/sdb", "/dev/sdc"}
Self == "self"
Other == "other"

\* a nil *apis.CSIVolume / a map miss
NoObj == 0
ObjIds == 1..(Cardinality(VolIds) + NumHandlers + MaxWorkers)

VARIABLES
    \* utils package state
    Volumes,            \* Volumes map[string]*apis.CSIVolume
    DevicePath,         \* object -> Spec.Volume.DevicePath
    ReadOnly,           \* object -> Spec.Volume.ReadOnly
    VolumesListLock,    \* holders: {} | {RLock} (MonitorMounts) | {WLock(handler)}
    ReqMountList,       \* set of volumeIDs being remounted
    ReqMountListLock,   \* holders: {} | {WLock(worker)}
    \* external collaborators
    mountTable,         \* volumeID -> "none" | "rw" | "ro"  (mounter.List())
    CR,                 \* volumeID -> owners of the CSIVolume CRs that exist
    mode,               \* volumeID -> permission of the mount path directory
    \* one RPC handler task per in-flight CSI call
    pc, op, volumeID, readOnly, vol, reVerified, devicePath,
    response,           \* the answer the last step sent to its call, if it sent one
    \* MonitorMounts
    mpc, list, todo, cur,
    \* RemountVolume goroutines
    wpc, wexists, wvol, wname,
    \* history
    sleeps,             \* handler -> time.Sleep calls of its current call
    created,            \* volumeID -> successful CreateCSIVolumeCR since the last registry removal
    torn,               \* object -> UnmountAndDetachDisk invocations on it
    rtv,                \* volumeID -> progress of an undisturbed publish/unpublish pair
    \* one caller of the wait functions of utils, looked at on its own
    waiter,             \* who waits: "publish" (line 155 or 162) or "remount" (line 324)
    probe,              \* the bounded probe last entered: "ready" or "reachable"
    ppc,                \* where that probe is: "check", "sleep" or "returned"
    retries,            \* the local retries of the probe
    perr,               \* the error the probe returned
    attempts,           \* status queries or dials the probe has made in this call
    pass,               \* the results of the probes of this pass of the unbounded wait
    passes,             \* passes the unbounded wait has given up
    acted               \* RemountVolume has gone on to its unmount, mount or attach

regvars == <<Volumes, DevicePath, ReadOnly, VolumesListLock>>
repvars == <<ReqMountList, ReqMountListLock>>
envvars == <<mountTable, CR, mode>>
hvars == <<pc, op, volumeID, readOnly, vol, reVerified, devicePath>>
mvars == <<mpc, list, todo, cur>>
wvars == <<wpc, wexists, wvol, wname>>
ghosts == <<sleeps, created, torn, rtv>>
pvars == <<waiter, probe, ppc, retries, perr, attempts, pass, passes, acted>>
nodevars == <<regvars, repvars, envvars, hvars, response, mvars, wvars, ghosts>>
vars == <<nodevars, pvars>>

Success == "Success"
InvalidArgument == "InvalidArgument"
Internal == "Internal"
MountUnderProgress == "Internal: Mount under progress"

\* holders of a sync.RWMutex
WLock(p) == <<"W", p>>
RLock == <<"R", NoObj>>

\* an Unlock that is left out
Unlock_Forgotten(p) == VolumesListLock

\* utils.VolumesListLock.Unlock() by handler p
Unlock(p) == VolumesListLock \ {WLock(p)}

\* the status a call is answered with, and the label it is answered from
Answer(r, l) == [status |-> r, at |-> l]

\* no response leaves with this step
NoResponse == Answer("none", "none")
Quiet == response' = NoResponse

Inc(n) == IF n < MaxCount THEN n + 1 ELSE MaxCount

\* the process memory with every handler task at label hl and MonitorMounts
\* at label ml: empty maps, free locks, no call in flight, no repair goroutine
Memory(hl, ml, V, D, RO, VL, RL, RLL, p, o, id, ro, vl, rv, dp, m, l, t, c, wp, we, wv, wn, sl, cr, tn, r) ==
    /\ V = [v \in VolIds |-> NoObj]
    /\ D = [x \in ObjIds |-> ""]
    /\ RO = [x \in ObjIds |-> FALSE]
    /\ VL = {}
    /\ RL = {}
    /\ RLL = {}
    /\ p = [h \in Handlers |-> hl]
    /\ o = [h \in Handlers |-> "none"]
    /\ id = [h \in Handlers |-> ""]
    /\ ro = [h \in Handlers |-> FALSE]
    /\ vl = [h \in Handlers |-> NoObj]
    /\ rv = [h \in Handlers |-> FALSE]
    /\ dp = [h \in Handlers |-> ""]
    /\ m = ml
    /\ l = [v \in VolIds |-> "none"]
    /\ t = {}
    /\ c = ""
    /\ wp = [w \in Workers |-> "idle"]
    /\ we = [w \in Workers |-> FALSE]
    /\ wv = [w \in Workers |-> NoObj]
    /\ wn = [w \in Workers |-> ""]
    /\ sl = [h \in Handlers |-> 0]
    /\ cr = [v \in VolIds |-> 0]
    /\ tn = [x \in ObjIds |-> 0]
    /\ r = [v \in VolIds |-> "none"]

\* the process as init() leaves it (utils lines 95-96)
Started(V, D, RO, VL, RL, RLL, p, o, id, ro, vl, rv, dp, m, l, t, c, wp, we, wv, wn, sl, cr, tn, r) ==
    Memory("idle", "tick", V, D, RO, VL, RL, RLL, p, o, id, ro, vl, rv, dp, m, l, t, c,
           wp, we, wv, wn, sl, cr, tn, r)

\* the process after the runtime aborted it: no task runs any more
Stopped(V, D, RO, VL, RL, RLL, p, o, id, ro, vl, rv, dp, m, l, t, c, wp, we, wv, wn, sl, cr, tn, r) ==
    Memory("dead", "dead", V, D, RO, VL, RL, RLL, p, o, id, ro, vl, rv, dp, m, l, t, c,
           wp, we, wv, wn, sl, cr, tn, r)

\* nobody is inside a wait function
NoWaiter(wt, pr, pp, rt, pe, at, ps, pn, ac) ==
    /\ wt = "none" /\ pr = "none" /\ pp = "none" /\ rt = 0 /\ pe = "none"
    /\ at = 0 /\ ps = <<>> /\ pn = 0 /\ ac = FALSE

Init ==
    /\ Started(Volumes, DevicePath, ReadOnly, VolumesListLock, ReqMountList,
               ReqMountListLock, pc, op, volumeID, readOnly, vol, reVerified,
               devicePath, mpc, list, todo, cur,
               wpc, wexists, wvol, wname, sleeps, created, torn, rtv)
    /\ response = NoResponse
    /\ mountTable = [v \in VolIds |-> "none"]
    /\ CR = [v \in VolIds |-> {}]
    /\ mode = [v \in VolIds |-> "orig"]
    /\ NoWaiter(waiter, probe, ppc, retries, perr, attempts, pass, passes, acted)

\* ------------------------------------------------------------- helpers

\* a handler is between the entry and the return of a call on volume v
Active(h, v) == pc[h] # "idle" /\ volumeID[h] = v

\* objects something still points to
InUse ==
    {Volumes[v] : v \in VolIds} \cup {vol[h] : h \in Handlers}
        \cup {wvol[w] : w \in Workers}

\* vol := apis.CSIVolume{} of GetVolumeDetails: an object nothing points to
NewObj == CHOOSE o \in ObjIds \ InUse : \A p \in ObjIds \ InUse : o <= p

\* the heap after a step: the objects nothing points to any more are
\* collected; dp and tn are the fields the step leaves
Collect(dp, tn) ==
    /\ DevicePath' = [o \in ObjIds |-> IF o \in InUse' THEN dp[o] ELSE ""]
    /\ torn' = [o \in ObjIds |-> IF o \in InUse' THEN tn[o] ELSE 0]

\* the handler goes on at label l, its locals untouched
Goto(h, l) ==
    /\ pc' = [pc EXCEPT ![h] = l]
    /\ Quiet
    /\ UNCHANGED <<op, volumeID, readOnly, vol, reVerified, devicePath, sleeps, rtv>>

\* the handler returns r: the response goes out and its locals die
Return(h, r) ==
    /\ pc' = [pc EXCEPT ![h] = "idle"]
    /\ response' = Answer(r, pc[h])
    /\ op' = [op EXCEPT ![h] = "none"]
    /\ volumeID' = [volumeID EXCEPT ![h] = ""]
    /\ readOnly' = [readOnly EXCEPT ![h] = FALSE]
    /\ vol' = [vol EXCEPT ![h] = NoObj]
    /\ reVerified' = [reVerified EXCEPT ![h] = FALSE]
    /\ devicePath' = [devicePath EXCEPT ![h] = ""]
    /\ sleeps' = [sleeps EXCEPT ![h] = 0]
    /\ rtv' = [rtv EXCEPT ![volumeID[h]] =
                  IF r = Success /\ op[h] = "publish" /\ @ = "pub" THEN "pubok"
                  ELSE IF r = Success /\ op[h] = "unpublish" /\ @ = "unpub" THEN "done"
                  ELSE "none"]

\* ------------------------------------------------- NodePublishVolume

\* the undisturbed round trip starts: nothing is recorded for v, and no other
\* call on v is in flight
Clean(h, v) ==
    /\ Volumes[v] = NoObj
    /\ CR[v] = {}
    /\ \A g \in Handlers \ {h} : ~Active(g, v)

\* the request arrives: validation, then GetVolumeDetails,
\* WaitForVolumeToBeReady and WaitForVolumeToBeReachable, three calls that
\* only read the outside world (lines 133-165)
PublishStart(h, vid, cap, ro) ==
    /\ pc[h] = "idle"
    /\ \/ /\ ~cap \/ vid = ""
          /\ response' = Answer(InvalidArgument, "validate")
          /\ UNCHANGED <<pc, op, volumeID>>
       \/ /\ cap /\ vid # ""
          /\ response' = Answer(Internal, "precheck")   \* GetVolumeDetails failed
          /\ UNCHANGED <<pc, op, volumeID>>
       \/ /\ cap /\ vid # ""
          /\ response' = Answer(Internal, "precheck")   \* WaitForVolumeToBeReady failed
          /\ UNCHANGED <<pc, op, volumeID>>
       \/ /\ cap /\ vid # ""
          /\ response' = Answer(Internal, "precheck")   \* WaitForVolumeToBeReachable failed
          /\ UNCHANGED <<pc, op, volumeID>>
       \/ /\ cap /\ vid # ""
          /\ pc' = [pc EXCEPT ![h] = "verifyPublish"]
          /\ op' = [op EXCEPT ![h] = "publish"]
          /\ volumeID' = [volumeID EXCEPT ![h] = vid]
          /\ Quiet
    /\ readOnly' = [readOnly EXCEPT ![h] = pc'[h] = "verifyPublish" /\ ro]
    /\ rtv' = IF vid \in VolIds
              THEN [rtv EXCEPT ![vid] =
                      IF pc'[h] = "verifyPublish" /\ Clean(h, vid) THEN "pub" ELSE "none"]
              ELSE rtv
    /\ UNCHANGED <<regvars, repvars, envvars, vol, reVerified, devicePath,
                   mvars, wvars, sleeps, created, torn>>
    /\ UNCHANGED pvars

\* the completed mount is not recognised
MountCompleted_Never(o) == FALSE

\* info.Spec.Volume.DevicePath != "" (line 177)
MountCompleted(o) == DevicePath[o] # ""

\* the flag of the second look is not honoured
AlreadyReVerified_Forgotten(h) == FALSE

\* the second look at a record whose mount is under progress (line 188)
AlreadyReVerified(h) == reVerified[h]

\* verifyPublish: (lines 168-198)
PublishVerify(h) ==
    /\ pc[h] = "verifyPublish"
    /\ VolumesListLock = {}
    /\ LET v == volumeID[h]
           info == Volumes[v]
       IN  \/ /\ info # NoObj /\ MountCompleted(info)
              /\ Return(h, Success)
              /\ UNCHANGED VolumesListLock
           \/ /\ info # NoObj /\ ~MountCompleted(info) /\ ~AlreadyReVerified(h)
              /\ Goto(h, "sleep")
              /\ UNCHANGED VolumesListLock
           \/ /\ info # NoObj /\ ~MountCompleted(info) /\ AlreadyReVerified(h)
              /\ Return(h, MountUnderProgress)
              /\ UNCHANGED VolumesListLock
           \/ /\ info = NoObj
              /\ VolumesListLock' = {WLock(h)}
              /\ Goto(h, "deleteOld")
    /\ UNCHANGED <<Volumes, DevicePath, ReadOnly, repvars, envvars, mvars, wvars,
                   created, torn>>
    /\ UNCHANGED pvars

\* time.Sleep(VolumeWaitRetryCount * VolumeWaitTimeout); reVerified = true (189-191)
PublishSleep(h) ==
    /\ pc[h] = "sleep"
    /\ sleeps' = [sleeps EXCEPT ![h] = Inc(@)]
    /\ reVerified' = [reVerified EXCEPT ![h] = TRUE]
    /\ pc' = [pc EXCEPT ![h] = "verifyPublish"]
    /\ Quiet
    /\ UNCHANGED <<regvars, repvars, envvars, op, volumeID, readOnly, vol,
                   devicePath, mvars, wvars, created, torn, rtv>>
    /\ UNCHANGED pvars

\* utils.DeleteOldCSIVolumeCR(vol, NodeID): the CRs of other nodes go
StaleOwnersRemoved(owners) == owners \ {Other}

\* lines 205-208, VolumesListLock held
PublishDeleteOld(h) ==
    /\ pc[h] = "deleteOld"
    /\ LET v == volumeID[h]
       IN  \/ /\ CR' = [CR EXCEPT ![v] = StaleOwnersRemoved(@)]
              /\ Goto(h, "createCR")
              /\ UNCHANGED VolumesListLock
           \/ /\ VolumesListLock' = Unlock(h)
              /\ Return(h, Internal)
              /\ UNCHANGED CR
    /\ UNCHANGED <<Volumes, DevicePath, ReadOnly, repvars, mountTable, mode, mvars,
                   wvars, created, torn>>
    /\ UNCHANGED pvars

\* the insertion left out
RegistryInsert_Dropped(v, o) == Volumes

\* utils.Volumes[volumeID] = vol (line 218)
RegistryInsert(v, o) == [Volumes EXCEPT ![v] = o]

\* lines 213-219, VolumesListLock held: CreateCSIVolumeCR, then the insertion
\* of the object GetVolumeDetails built
PublishCreateCR(h) ==
    /\ pc[h] = "createCR"
    /\ VolumesListLock' = Unlock(h)
    /\ LET v == volumeID[h]
           o == NewObj
       IN  \/ /\ CR' = [CR EXCEPT ![v] = @ \cup {Self}]
              /\ created' = [created EXCEPT ![v] = Inc(@)]
              /\ Volumes' = RegistryInsert(v, o)
              /\ ReadOnly' = [ReadOnly EXCEPT ![o] = readOnly[h]]
              /\ vol' = [vol EXCEPT ![h] = o]
              /\ pc' = [pc EXCEPT ![h] = "chmod"]
              /\ Quiet
              /\ UNCHANGED <<op, volumeID, readOnly, reVerified, devicePath, sleeps,
                             rtv>>
           \/ /\ Return(h, Internal)
              /\ UNCHANGED <<CR, created, Volumes, ReadOnly>>
    /\ UNCHANGED <<repvars, mountTable, mode, mvars, wvars>>
    /\ Collect(DevicePath, torn)
    /\ UNCHANGED pvars

\* utils.ChmodMountPath (lines 229-231)
PublishChmod(h) ==
    /\ pc[h] = "chmod"
    /\ \/ /\ mode' = [mode EXCEPT ![volumeID[h]] = "0000"]
          /\ Goto(h, "attach")
       \/ /\ Return(h, Internal)
          /\ UNCHANGED mode
    /\ UNCHANGED <<Volumes, ReadOnly, VolumesListLock, repvars, mountTable, CR,
                   mvars, wvars, created>>
    /\ Collect(DevicePath, torn)
    /\ UNCHANGED pvars

\* the options iscsi.AttachAndMountDisk mounts the volume of object o with:
\* read-only if the request asked for it
MountedAs(o) == IF ReadOnly[o] THEN "ro" ELSE "rw"

\* iscsi.AttachAndMountDisk (lines 233-235)
PublishAttach(h) ==
    /\ pc[h] = "attach"
    /\ \/ /\ mountTable' = [mountTable EXCEPT ![volumeID[h]] = MountedAs(vol[h])]
          /\ \E d \in DevPaths : devicePath' = [devicePath EXCEPT ![h] = d]
          /\ pc' = [pc EXCEPT ![h] = "finalize"]
          /\ Quiet
          /\ UNCHANGED <<op, volumeID, readOnly, vol, reVerified, sleeps, rtv>>
       \/ /\ Return(h, Internal)
          /\ UNCHANGED mountTable
    /\ UNCHANGED <<Volumes, ReadOnly, VolumesListLock, repvars, CR, mode, mvars,
                   wvars, created>>
    /\ Collect(DevicePath, torn)
    /\ UNCHANGED pvars

\* vol.Spec.Volume.DevicePath = devicePath (line 246)
SetDevicePath(o, d) == [DevicePath EXCEPT ![o] = d]

\* lines 244-249
PublishFinalize(h) ==
    /\ pc[h] = "finalize"
    /\ VolumesListLock = {}
    /\ Return(h, Success)
    /\ UNCHANGED <<Volumes, ReadOnly, VolumesListLock, repvars, envvars, mvars,
                   wvars, created>>
    /\ Collect(SetDevicePath(vol[h], devicePath[h]), torn)
    /\ UNCHANGED pvars

\* ----------------------------------------------- NodeUnpublishVolume

\* the request arrives and is validated (lines 263-274)
UnpublishStart(h, vid, targetPath) ==
    /\ pc[h] = "idle"
    /\ IF vid = "" \/ ~targetPath
       THEN /\ response' = Answer(InvalidArgument, "validate")
            /\ UNCHANGED <<pc, op, volumeID>>
       ELSE /\ pc' = [pc EXCEPT ![h] = "remove"]
            /\ op' = [op EXCEPT ![h] = "unpublish"]
            /\ volumeID' = [volumeID EXCEPT ![h] = vid]
            /\ Quiet
    /\ UNCHANGED readOnly
    /\ rtv' = IF vid \in VolIds
              THEN [rtv EXCEPT ![vid] =
                      IF targetPath /\ @ = "pubok" /\ \A g \in Handlers \ {h} : ~Active(g, vid)
                      THEN "unpub" ELSE "none"]
              ELSE rtv
    /\ UNCHANGED <<regvars, repvars, envvars, vol, reVerified, devicePath,
                   mvars, wvars, sleeps, created, torn>>
    /\ UNCHANGED pvars

\* the removal left out
RegistryDelete_Kept(v) == Volumes

\* delete(utils.Volumes, volumeID) (line 282)
RegistryDelete(v) == [Volumes EXCEPT ![v] = NoObj]

\* the lookup takes every volumeID for registered
Registered_Always(v) == TRUE

\* vol, ok := utils.Volumes[volumeID] (line 276)
Registered(v) == Volumes[v] # NoObj

\* lines 275-283
UnpublishRemove(h) ==
    /\ pc[h] = "remove"
    /\ VolumesListLock = {}
    /\ LET v == volumeID[h]
       IN  \/ /\ ~Registered(v)
              /\ Return(h, Success)
              /\ UNCHANGED <<Volumes, created>>
           \/ /\ Registered(v)
              /\ vol' = [vol EXCEPT ![h] = Volumes[v]]
              /\ Volumes' = RegistryDelete(v)
              /\ created' = [created EXCEPT ![v] = 0]
              /\ pc' = [pc EXCEPT ![h] = "teardown"]
              /\ Quiet
              /\ UNCHANGED <<op, volumeID, readOnly, reVerified, devicePath, sleeps,
                             rtv>>
    /\ UNCHANGED <<DevicePath, ReadOnly, VolumesListLock, repvars, envvars, mvars,
                   wvars, torn>>
    /\ UNCHANGED pvars

\* the call goes on to DeleteCSIVolumeCR although the teardown failed
TeardownFailed_GoesOn(h) == Goto(h, "deleteCR")

\* return nil, status.Error(codes.Internal, ...) when UnmountAndDetachDisk
\* failed (lines 300-302)
TeardownFailed(h) == Return(h, Internal)

\* iscsi.UnmountAndDetachDisk (lines 299-303)
UnpublishTeardown(h) ==
    /\ pc[h] = "teardown"
    /\ LET v == volumeID[h]
       IN  \/ /\ mountTable' = [mountTable EXCEPT ![v] = "none"]
              /\ Goto(h, "deleteCR")
           \/ /\ \E m \in {mountTable[v], "none"} :
                    mountTable' = [mountTable EXCEPT ![v] = m]
              /\ TeardownFailed(h)
    /\ UNCHANGED <<Volumes, ReadOnly, VolumesListLock, repvars, CR, mode, mvars,
                   wvars, created>>
    /\ Collect(DevicePath, [torn EXCEPT ![vol[h]] = Inc(@)])
    /\ UNCHANGED pvars

\* utils.DeleteCSIVolumeCR (lines 307-316)
UnpublishDeleteCR(h) ==
    /\ pc[h] = "deleteCR"
    /\ \/ /\ CR' = [CR EXCEPT ![volumeID[h]] = @ \ {Self}]
          /\ Return(h, Success)
       \/ /\ Return(h, Internal)
          /\ UNCHANGED CR
    /\ UNCHANGED <<Volumes, ReadOnly, VolumesListLock, repvars, mountTable, mode,
                   mvars, wvars, created>>
    /\ Collect(DevicePath, torn)
    /\ UNCHANGED pvars

\* ------------------------------------------------------ MonitorMounts

\* list, _ := mounter.List() on a tick (lines 251-253)
MonitorList ==
    /\ mpc = "tick"
    /\ list' = mountTable
    /\ mpc' = "rlock"
    /\ Quiet
    /\ UNCHANGED <<regvars, repvars, envvars, hvars, todo, cur, wvars, ghosts>>
    /\ UNCHANGED pvars

\* VolumesListLock.RLock(); the range over Volumes starts (lines 254-255)
MonitorRLock ==
    /\ mpc = "rlock"
    /\ VolumesListLock = {}
    /\ VolumesListLock' = {RLock}
    /\ todo' = {v \in VolIds : Volumes[v] # NoObj}
    /\ mpc' = "loop"
    /\ Quiet
    /\ UNCHANGED <<Volumes, DevicePath, ReadOnly, repvars, envvars, hvars, list,
                   cur, wvars, ghosts>>
    /\ UNCHANGED pvars

\* the devicePath test of the sweep left out
PublishNotCompleted_Skipped(o) == FALSE

\* vol.Spec.Volume.DevicePath == "" (line 256)
PublishNotCompleted(o) == DevicePath[o] = ""

\* exists && verifyMountOpts(mountPoint.Opts, "rw") (lines 263-265)
InGoodShape(v) == list[v] # "none" /\ list[v] = "rw"

\* a worker is inside delete(ReqMountList, ...) (line 341)
Deleting(v) == \E w \in Workers : wpc[w] = "deleting" /\ wname[w] = v

\* the membership test of the sweep left out
IsRemounting_Ignored(v) == {FALSE}

\* the values the unlocked read of ReqMountList[v] can give (line 271):
\* while a worker deletes the very key, either answer
IsRemounting(v) ==
    IF Deleting(v) THEN {TRUE, FALSE} ELSE {v \in ReqMountList}

\* one iteration of the range loop up to the membership test (lines 255-273)
MonitorVisit(v) ==
    /\ mpc = "loop"
    /\ v \in todo
    /\ todo' = todo \ {v}
    /\ \/ /\ PublishNotCompleted(Volumes[v]) \/ InGoodShape(v)
          /\ UNCHANGED <<mpc, cur>>
       \/ /\ ~PublishNotCompleted(Volumes[v]) /\ ~InGoodShape(v)
          /\ TRUE \in IsRemounting(v)
          /\ UNCHANGED <<mpc, cur>>
       \/ /\ ~PublishNotCompleted(Volumes[v]) /\ ~InGoodShape(v)
          /\ FALSE \in IsRemounting(v)
          /\ mpc' = "mark"
          /\ cur' = v
    /\ Quiet
    /\ UNCHANGED <<regvars, repvars, envvars, hvars, list, wvars, ghosts>>
    /\ UNCHANGED pvars

\* the other outcome of the unlocked read of line 271 while a worker is
\* inside the delete of line 341: the runtime detects the concurrent map read
\* and map write and aborts the process; its memory is gone, the mounts and
\* the CRs stay
MonitorCrash(v) ==
    /\ mpc = "loop"
    /\ v \in todo
    /\ ~PublishNotCompleted(Volumes[v]) /\ ~InGoodShape(v)
    /\ \E w \in Workers : wpc[w] = "deleting"
    /\ Stopped(Volumes', DevicePath', ReadOnly', VolumesListLock', ReqMountList',
               ReqMountListLock', pc', op', volumeID', readOnly', vol', reVerified',
               devicePath', mpc', list', todo',
               cur', wpc', wexists', wvol', wname', sleeps', created', torn', rtv')
    /\ Quiet
    /\ UNCHANGED envvars
    /\ UNCHANGED pvars

\* a goroutine that is not running
FreeWorker == CHOOSE w \in Workers : wpc[w] = "idle" /\ \A u \in Workers : wpc[u] = "idle" => w <= u

\* repairs run one at a time: no goroutine starts while another one runs
CanSpawn_Serial == \A u \in Workers : wpc[u] = "idle"

\* the go statement of line 279 starts a goroutine next to the running ones
CanSpawn == \E u \in Workers : wpc[u] = "idle"

\* ReqMountList[name] = true under ReqMountListLock; go RemountVolume(...)
\* (lines 276-279)
MonitorMark ==
    /\ mpc = "mark"
    /\ ReqMountListLock = {}
    /\ CanSpawn
    /\ ReqMountList' = ReqMountList \cup {cur}
    /\ LET w == FreeWorker
       IN  /\ wpc' = [wpc EXCEPT ![w] = "waiting"]
           /\ wexists' = [wexists EXCEPT ![w] = list[cur] # "none"]
           /\ wvol' = [wvol EXCEPT ![w] = Volumes[cur]]
           /\ wname' = [wname EXCEPT ![w] = cur]
    /\ mpc' = "loop"
    /\ cur' = ""
    /\ Quiet
    /\ UNCHANGED <<regvars, ReqMountListLock, envvars, hvars, list, todo, ghosts>>
    /\ UNCHANGED pvars

\* the range loop is over: VolumesListLock.RUnlock() (line 281)
MonitorRUnlock ==
    /\ mpc = "loop"
    /\ todo = {}
    /\ VolumesListLock' = {}
    /\ mpc' = "tick"
    /\ list' = [v \in VolIds |-> "none"]
    /\ Quiet
    /\ UNCHANGED <<Volumes, DevicePath, ReadOnly, repvars, envvars, hvars, todo,
                   cur, wvars, ghosts>>
    /\ UNCHANGED pvars

\* ------------------------------------------------------ RemountVolume

\* WaitForVolumeReadyAndReachable(vol) has returned and exists holds:
\* mounter.Unmount(mountPoint.Path), its error dropped (lines 324-329)
RemountUnmount(w) ==
    /\ wpc[w] = "waiting"
    /\ wexists[w]
    /\ \/ mountTable' = [mountTable EXCEPT ![wname[w]] = "none"]
       \/ UNCHANGED mountTable
    /\ wpc' = [wpc EXCEPT ![w] = "mount"]
    /\ Quiet
    /\ UNCHANGED <<regvars, repvars, CR, mode, hvars, mvars, wexists, wvol,
                   wname, ghosts>>
    /\ UNCHANGED pvars

\* mounter.Mount(mountPoint.Device, mountPoint.Path, "", {"rw"}) (lines 330-331)
RemountMount(w) ==
    /\ wpc[w] = "mount"
    /\ \/ mountTable' = [mountTable EXCEPT ![wname[w]] = "rw"]
       \/ UNCHANGED mountTable
    /\ wpc' = [wpc EXCEPT ![w] = "clear"]
    /\ Quiet
    /\ UNCHANGED <<regvars, repvars, CR, mode, hvars, mvars, wexists, wvol,
                   wname, ghosts>>
    /\ UNCHANGED pvars

\* the worker writes what AttachAndMountDisk returned into the record
RemountDevicePath_Written(o, d) == [DevicePath EXCEPT ![o] = d]

\* what RemountVolume does with the devicePath AttachAndMountDisk returned
\* (line 336: the update is a TODO, nothing is written)
RemountDevicePath(o, d) == DevicePath

\* WaitForVolumeReadyAndReachable(vol) has returned and exists does not hold:
\* devicePath, err = iscsi.AttachAndMountDisk(vol) (lines 324, 332-337)
RemountAttach(w) ==
    /\ wpc[w] = "waiting"
    /\ ~wexists[w]
    /\ \/ /\ mountTable' = [mountTable EXCEPT ![wname[w]] = MountedAs(wvol[w])]
          /\ \E d \in DevPaths : DevicePath' = RemountDevicePath(wvol[w], d)
       \/ /\ UNCHANGED mountTable
          /\ DevicePath' = RemountDevicePath(wvol[w], "")
    /\ wpc' = [wpc EXCEPT ![w] = "clear"]
    /\ Quiet
    /\ UNCHANGED <<Volumes, ReadOnly, VolumesListLock, repvars, CR, mode, hvars,
                   mvars, wexists, wvol, wname, ghosts>>
    /\ UNCHANGED pvars

\* ReqMountListLock.Lock() (line 338)
RemountLock(w) ==
    /\ wpc[w] = "clear"
    /\ ReqMountListLock = {}
    /\ ReqMountListLock' = {WLock(w)}
    /\ wpc' = [wpc EXCEPT ![w] = "deleting"]
    /\ Quiet
    /\ UNCHANGED <<regvars, ReqMountList, envvars, hvars, mvars, wexists, wvol,
                   wname, ghosts>>
    /\ UNCHANGED pvars

\* the worker returns without the delete
RepairCleared_Left(name) == ReqMountList

\* delete(ReqMountList, vol.Spec.Volume.Name) (line 341)
RepairCleared(name) == ReqMountList \ {name}

\* the goroutine asks for VolumesListLock inside its critical section
CriticalSection_TakesVolumesLock(w) == VolumesListLock = {}

\* what the critical section of lines 338-342 waits for once it has
\* ReqMountListLock: nothing, it takes no other lock
CriticalSection(w) == TRUE

\* the delete completes; ReqMountListLock.Unlock(); return (lines 341-343)
RemountDone(w) ==
    /\ wpc[w] = "deleting"
    /\ CriticalSection(w)
    /\ ReqMountList' = RepairCleared(wname[w])
    /\ ReqMountListLock' = {}
    /\ wpc' = [wpc EXCEPT ![w] = "idle"]
    /\ wexists' = [wexists EXCEPT ![w] = FALSE]
    /\ wvol' = [wvol EXCEPT ![w] = NoObj]
    /\ wname' = [wname EXCEPT ![w] = ""]
    /\ Quiet
    /\ UNCHANGED <<Volumes, ReadOnly, VolumesListLock, envvars, hvars, mvars,
                   sleeps, created, rtv>>
    /\ Collect(DevicePath, torn)
    /\ UNCHANGED pvars

\* ------------------------------------------------------- environment

\* the kernel remounts a mounted path read-only, or the mount goes away
KernelChange(v) ==
    /\ mountTable[v] # "none"
    /\ \E m \in {"ro", "none"} :
          /\ m # mountTable[v]
          /\ mountTable' = [mountTable EXCEPT ![v] = m]
    /\ Quiet
    /\ UNCHANGED <<regvars, repvars, CR, mode, hvars, mvars, wvars, ghosts>>
    /\ UNCHANGED pvars

\* another node took the volume over while this node held nothing for it,
\* and left its CSIVolume CR behind
StaleOwner(v) ==
    /\ Volumes[v] = NoObj
    /\ CR[v] = {}
    /\ \A h \in Handlers : ~Active(h, v)
    /\ CR' = [CR EXCEPT ![v] = {Other}]
    /\ Quiet
    /\ UNCHANGED <<regvars, repvars, mountTable, mode, hvars, mvars, wvars, ghosts>>
    /\ UNCHANGED pvars

\* ------------------------------------------------------ specification

\* the volume the orchestrator schedules on this node
Vols == {"v1"}

\* requests that publish read-write: req.Readonly is false
Writable == {FALSE}

\* the NodePublishVolume calls the handler tasks HS serve, for the volumes VS
\* and with req.Readonly drawn from ROS
Publishes(HS, VS, ROS) ==
    \/ \E h \in HS, vid \in VS \cup {""}, cap \in BOOLEAN, ro \in ROS :
          PublishStart(h, vid, cap, ro)
    \/ \E h \in HS : PublishVerify(h)
    \/ \E h \in HS : PublishSleep(h)
    \/ \E h \in HS : PublishDeleteOld(h)
    \/ \E h \in HS : PublishCreateCR(h)
    \/ \E h \in HS : PublishChmod(h)
    \/ \E h \in HS : PublishAttach(h)
    \/ \E h \in HS : PublishFinalize(h)

\* the NodeUnpublishVolume calls the handler tasks HS serve, for the volumes VS
Unpublishes(HS, VS) ==
    \/ \E h \in HS, vid \in VS \cup {""}, targetPath \in BOOLEAN :
          UnpublishStart(h, vid, targetPath)
    \/ \E h \in HS : UnpublishRemove(h)
    \/ \E h \in HS : UnpublishTeardown(h)
    \/ \E h \in HS : UnpublishDeleteCR(h)

\* the CSI calls the handler tasks HS serve
RPC(HS) ==
    \/ Publishes(HS, Vols, Writable)
    \/ Unpublishes(HS, Vols)

\* the supervisor and its repair goroutines
Repair ==
    \/ MonitorList
    \/ MonitorRLock
    \/ \E v \in VolIds : MonitorVisit(v)
    \/ \E v \in VolIds : MonitorCrash(v)
    \/ MonitorMark
    \/ MonitorRUnlock
    \/ \E w \in Workers : RemountUnmount(w)
    \/ \E w \in Workers : RemountMount(w)
    \/ \E w \in Workers : RemountAttach(w)
    \/ \E w \in Workers : RemountLock(w)
    \/ \E w \in Workers : RemountDone(w)

\* the whole node plugin: concurrent calls, the supervisor, the kernel
Next ==
    \/ RPC(Handlers)
    \/ Repair
    \/ \E v \in Vols : KernelChange(v)
    \/ \E v \in Vols : StaleOwner(v)

Spec == Init /\ [][Next]_vars

\* concurrent calls alone: the handlers read nothing the supervisor, the
\* repair goroutines or the kernel write
NextRPC ==
    \/ RPC(Handlers)
    \/ \E v \in Vols : StaleOwner(v)

SpecRPC == Init /\ [][NextRPC]_vars

\* the supervisor, the repair goroutines and the kernel against calls that
\* come one after the other
OneAtATime == {1}

NextRepair ==
    \/ RPC(OneAtATime)
    \/ Repair
    \/ \E v \in Vols : KernelChange(v)
    \/ \E v \in Vols : StaleOwner(v)

SpecRepair == Init /\ [][NextRepair]_vars

\* ------------------------------------------------------------- claims

\* a RemountVolume goroutine that has not returned
InFlight(w) == wpc[w] # "idle"

\* C1: in every reachable state, every volumeID has at most one repair
\* worker in flight, whatever ticks, mount-table changes, publishes and
\* unpublishes came before.
C1_AtMostOneRepair ==
    \A v \in VolIds :
        Cardinality({w \in Workers : InFlight(w) /\ wname[w] = v}) <= 1

\* C1 witness: a worker spawned for an earlier record of v1 is still in its
\* readiness wait, v1 has been unpublished and published again, its mount is
\* not in good shape, and the sweep has just passed v1 without a second spawn.
C1_Witness ==
    \E w \in Workers :
        /\ wpc[w] = "waiting" /\ wname[w] = "v1"
        /\ Volumes["v1"] # NoObj /\ Volumes["v1"] # wvol[w]
        /\ DevicePath[Volumes["v1"]] # ""
        /\ mpc = "loop" /\ todo = {} /\ list["v1"] # "rw"
        /\ \A u \in Workers \ {w} : ~InFlight(u)

\* C2: MonitorMounts never spawns a repair worker for a record whose
\* devicePath is empty at the moment of the sweep, whatever the mount table
\* holds.
C2_SupervisorSafety ==
    [][\A w \in Workers :
          ~InFlight(w) /\ InFlight(w)' =>
              /\ wvol'[w] = Volumes[wname'[w]]
              /\ DevicePath[wvol'[w]] # ""]_vars

\* C2 witness: the record of v1 is inserted and its devicePath not yet
\* written, the mount table of the sweep shows v1 mounted read-only, and the
\* sweep has passed v1 without a spawn.
C2_Witness ==
    /\ Volumes["v1"] # NoObj /\ DevicePath[Volumes["v1"]] = ""
    /\ \E h \in Handlers : pc[h] = "finalize" /\ vol[h] = Volumes["v1"]
    /\ mpc = "loop" /\ todo = {} /\ list["v1"] = "ro"
    /\ \A w \in Workers : ~InFlight(w)

\* the record the registry holds for v
Record(v) == Volumes[v]

\* handler h takes a step from label l (the abort of the process is no step
\* of a handler)
StepFrom(h, l) == pc[h] = l /\ pc'[h] \notin {l, "dead"}

\* C3: the devicePath of the record the registry holds, once non-empty,
\* never changes and never becomes empty while that record stays in the
\* registry, and only the finalize step of NodePublishVolume writes the
\* devicePath of a registered record; a repair worker does not.
C3_DevicePathMonotonic ==
    [][\A v \in VolIds :
          LET o == Record(v)
          IN  o # NoObj /\ Volumes'[v] = o =>
                 /\ DevicePath[o] # "" => DevicePath'[o] = DevicePath[o]
                 /\ DevicePath'[o] # DevicePath[o] =>
                       \E h \in Handlers :
                           /\ StepFrom(h, "finalize") /\ vol[h] = o
                           /\ DevicePath'[o] = devicePath[h]]_vars

\* C3 witness: a repair worker has attached and mounted v1 anew for the
\* record the registry still holds, and that record keeps its devicePath.
C3_Witness ==
    \E w \in Workers :
        /\ wpc[w] = "clear" /\ ~wexists[w] /\ wname[w] = "v1"
        /\ wvol[w] = Record("v1") /\ DevicePath[wvol[w]] # ""
        /\ mountTable["v1"] = "rw"

\* C4: over successive and concurrent NodePublishVolume calls for one
\* volumeID with no NodeUnpublishVolume removing its record in between, the
\* CSIVolume CR is successfully created at most once.
C4_CreatedAtMostOnce ==
    \A v \in VolIds : created[v] <= 1

\* C4 witness: two concurrent publishes of v1, one past the creation of the
\* CR and attaching, the other made to wait by the record it found.
C4_Witness ==
    \E h, g \in Handlers :
        /\ h # g /\ created["v1"] = 1
        /\ Active(h, "v1") /\ pc[h] = "attach"
        /\ Active(g, "v1") /\ pc[g] = "sleep"

\* C5: a NodePublishVolume that reaches the registry check and finds a
\* record with a devicePath returns Success at once, deletes and creates no
\* CR, does not chmod the mount path, does not attach or mount, and leaves
\* the registry as it is.
C5_IdempotentCompletion ==
    [][\A h \in Handlers :
          /\ StepFrom(h, "verifyPublish")
          /\ Record(volumeID[h]) # NoObj
          /\ DevicePath[Record(volumeID[h])] # ""
          => /\ response' = Answer(Success, "verifyPublish")
             /\ pc'[h] = "idle"
             /\ UNCHANGED <<Volumes, DevicePath, VolumesListLock, CR, mode,
                            mountTable, created>>]_vars

\* C5 witness: a publish of the mounted v1 has just been answered Success
\* from the registry check.
C5_Witness ==
    /\ response = Answer(Success, "verifyPublish")
    /\ Record("v1") # NoObj /\ DevicePath[Record("v1")] # ""
    /\ CR["v1"] = {Self} /\ mountTable["v1"] = "rw" /\ created["v1"] = 1

\* C6: however NodeUnpublishVolume calls for one volumeID interleave,
\* UnmountAndDetachDisk is invoked once for a record, by the call that
\* removed it from the registry; a call that finds no record returns Success
\* without invoking the iSCSI client and without deleting a CR.
C6_UnpublishIdempotent ==
    [][/\ \A o \in ObjIds : torn'[o] <= 1
       /\ \A h \in Handlers :
             /\ StepFrom(h, "remove") /\ Record(volumeID[h]) = NoObj
                => /\ response' = Answer(Success, "remove")
                   /\ pc'[h] = "idle"
                   /\ UNCHANGED <<Volumes, mountTable, CR, torn>>
             /\ StepFrom(h, "remove") /\ Record(volumeID[h]) # NoObj
                => /\ pc'[h] = "teardown" /\ vol'[h] = Record(volumeID[h])
                   /\ Volumes'[volumeID[h]] = NoObj
             /\ StepFrom(h, "teardown") /\ pc'[h] = "deleteCR"
                => torn'[vol[h]] = 1]_vars

\* C6 witness: of two unpublishes of v1, one has torn the record down and is
\* about to delete the CR, the other has just been answered Success for
\* finding no record.
C6_Witness ==
    /\ response = Answer(Success, "remove")
    /\ \E h \in Handlers :
          /\ Active(h, "v1") /\ pc[h] = "deleteCR" /\ torn[vol[h]] = 1
    /\ Record("v1") = NoObj

\* C7: from a state with no registry entry and no CR for a volumeID, a
\* publish answered Success followed by an unpublish of the same volumeID
\* answered Success leaves no registry entry and no CR for it.
C7_RoundTrip ==
    [][\A v \in VolIds :
          rtv[v] = "unpub" /\ rtv'[v] = "done" =>
              Volumes'[v] = NoObj /\ CR'[v] = {}]_vars

\* C7 witness: the unpublish that closes the round trip of v1 has just been
\* answered Success after deleting the CR.
C7_Witness ==
    /\ rtv["v1"] = "done"
    /\ response = Answer(Success, "deleteCR")

\* C8: a publish that finds a record with empty devicePath sleeps once,
\* never holding VolumesListLock, and checks once more; the second check
\* answers Success if the devicePath is set and Internal "Mount under
\* progress" if it is still empty; a call that finds a record changes no CR,
\* no mount and no registry entry.
C8_DuplicateDuringMount ==
    [][\A h \in Handlers :
          /\ sleeps'[h] <= 1
          /\ pc'[h] = "sleep" => WLock(h) \notin VolumesListLock'
          /\ StepFrom(h, "sleep") => pc'[h] = "verifyPublish" /\ reVerified'[h]
          /\ StepFrom(h, "verifyPublish") /\ Record(volumeID[h]) # NoObj
             => /\ UNCHANGED <<Volumes, DevicePath, CR, mode, mountTable>>
                /\ WLock(h) \notin VolumesListLock'
                /\ IF DevicePath[Record(volumeID[h])] # ""
                   THEN response' = Answer(Success, "verifyPublish")
                   ELSE IF reVerified[h]
                   THEN /\ response' = Answer(MountUnderProgress, "verifyPublish")
                        /\ sleeps[h] = 1
                   ELSE /\ pc'[h] = "sleep" /\ response' = NoResponse
                        /\ sleeps[h] = 0]_vars

\* C8 witness: a publish that slept once and found the devicePath still
\* empty has just been answered "Mount under progress", while the publish
\* that inserted the record is still attaching.
C8_Witness ==
    /\ response = Answer(MountUnderProgress, "verifyPublish")
    /\ \E g \in Handlers : Active(g, "v1") /\ pc[g] = "attach"

\* handler h is answered r for a NodePublishVolume with this step
PublishAnswered(h, r) ==
    /\ op[h] = "publish" /\ pc[h] # "idle" /\ pc'[h] = "idle"
    /\ response'.status = r

\* C9: a publish that finds no record deletes the CR of another node before
\* it creates its own, and both succeed before the registry insertion and
\* before any attach; if either fails the answer is Internal, nothing is
\* inserted and nothing attached; and when a publish is answered Success
\* the only CR of the volume names this node.
C9_TakeoverOrdering ==
    [][/\ \A v \in VolIds :
             Volumes'[v] # Volumes[v] /\ Volumes'[v] # NoObj =>
                 \E h \in Handlers : StepFrom(h, "createCR") /\ volumeID[h] = v
       /\ \A h \in Handlers :
          LET v == volumeID[h]
          IN  /\ StepFrom(h, "verifyPublish") /\ Record(v) = NoObj
                 => pc'[h] = "deleteOld" /\ UNCHANGED <<Volumes, CR, mountTable>>
              /\ StepFrom(h, "deleteOld")
                 => \/ /\ pc'[h] = "createCR" /\ Other \notin CR'[v]
                       /\ UNCHANGED <<Volumes, mountTable>>
                    \/ /\ PublishAnswered(h, Internal)
                       /\ UNCHANGED <<Volumes, CR, mountTable>>
              /\ StepFrom(h, "createCR")
                 => \/ /\ pc'[h] = "chmod" /\ CR'[v] = {Self}
                       /\ Volumes'[v] = vol'[h] /\ vol'[h] # NoObj
                       /\ UNCHANGED mountTable
                    \/ /\ PublishAnswered(h, Internal)
                       /\ UNCHANGED <<Volumes, CR, mountTable>>
              /\ StepFrom(h, "chmod")
                 => pc'[h] = "attach" \/ PublishAnswered(h, Internal)
              /\ pc'[h] = "attach" => vol'[h] # NoObj
              /\ PublishAnswered(h, Success) => CR'[v] = {Self}]_vars

\* worker w unmounts, mounts or attaches with this step
RepairActs(w) ==
    \/ wpc[w] = "waiting" /\ wpc'[w] \in {"mount", "clear"}
    \/ wpc[w] = "mount" /\ wpc'[w] = "clear"

\* C10: no repair worker unmounts, mounts or attaches a volume while or
\* after a NodeUnpublishVolume tears down the record the worker was spawned
\* for, also when the worker was spawned before the record was removed and
\* was still in its readiness wait.
C10_NoRepairRacesUnpublish ==
    [][\A w \in Workers :
          RepairActs(w) =>
              /\ torn[wvol[w]] = 0
              /\ \A h \in Handlers :
                    ~(pc[h] \in {"teardown", "deleteCR"} /\ vol[h] = wvol[w])]_vars

\* handler h is answered an error for a NodePublishVolume with this step
PublishFailed(h) ==
    /\ op[h] = "publish" /\ pc[h] # "idle" /\ pc'[h] = "idle"
    /\ response'.status \in {InvalidArgument, Internal, MountUnderProgress}

\* C11: a NodePublishVolume that is answered an error, whichever the error,
\* leaves the registry as it was when the call started: the call has inserted
\* no record and written no devicePath.
C11_RegistryOnlyOnSuccess ==
    [][/\ response'.at \in {"validate", "precheck"}
          => UNCHANGED <<Volumes, DevicePath>>
       /\ \A h \in Handlers :
             PublishFailed(h) =>
                 /\ vol[h] = NoObj
                 /\ UNCHANGED <<Volumes, DevicePath>>]_vars

\* ------------------------------------------------- convergence (C12)

\* an orchestrator that only publishes, the supervisor, the repair
\* goroutines and the kernel
NextLive ==
    \/ Publishes(OneAtATime, Vols, Writable)
    \/ Repair
    \/ \E v \in Vols : KernelChange(v)

\* the orchestrator retries NodePublishVolume and the volume is ready and
\* reachable again and again
Retried ==
    \E h \in OneAtATime : PublishStart(h, "v1", TRUE, FALSE) /\ pc'[h] = "verifyPublish"

\* a handler that is inside a call goes on
Served ==
    \E h \in OneAtATime :
        \/ PublishVerify(h) \/ PublishSleep(h) \/ PublishDeleteOld(h)
        \/ PublishCreateCR(h) \/ PublishChmod(h) \/ PublishFinalize(h)

\* iscsi.AttachAndMountDisk of a publish succeeds
Attached == \E h \in OneAtATime : PublishAttach(h) /\ pc'[h] = "finalize"

\* the ticker fires and the sweep goes on (lines 249-282)
Supervised ==
    \/ MonitorList \/ MonitorRLock \/ MonitorMark \/ MonitorRUnlock
    \/ \E v \in VolIds : MonitorVisit(v)

\* goroutine w goes on
Repaired(w) ==
    \/ RemountUnmount(w) \/ RemountMount(w) \/ RemountAttach(w)
    \/ RemountLock(w) \/ RemountDone(w)

\* every task goes on, and a task that waits for a lock gets it (a sync.RWMutex
\* starves nobody); the retried publish and the attach succeed again and again
SpecLive ==
    /\ Init /\ [][NextLive]_vars
    /\ SF_vars(Retried) /\ SF_vars(Served) /\ SF_vars(Attached)
    /\ SF_vars(Supervised)
    /\ \A w \in Workers : SF_vars(Repaired(w))

\* the attach+mount of a publish has just failed
AttachFailed == response = Answer(Internal, "attach")

\* the record of v is in the registry with its devicePath
Published(v) == Record(v) # NoObj /\ DevicePath[Record(v)] # ""

\* C12: after a failed attach+mount of a publish, while the volume stays
\* ready and reachable, the supervisor keeps ticking and the orchestrator
\* keeps retrying, a repair is eventually spawned for the volume and the
\* volume eventually is published (devicePath non-empty).
C12_Convergence ==
    /\ AttachFailed ~> (\E w \in Workers : InFlight(w) /\ wname[w] = "v1")
    /\ AttachFailed ~> Published("v1")

\* C13: a volumeID is in ReqMountList exactly while a RemountVolume goroutine
\* for it has not returned: every worker that gets past its wait deletes its
\* volumeID before it returns, whether its unmount, mount or attach succeeded
\* or failed, so a later sweep can take the volume up again.
C13_RepairSetCleared ==
    ReqMountList = {wname[w] : w \in {u \in Workers : InFlight(u)}}

\* C13 witness: the sweep passed the published, badly mounted v1 without a
\* spawn because a worker for it was in flight; that worker has returned
\* since, and ReqMountList is empty again.
C13_Witness ==
    /\ mpc = "loop" /\ todo = {} /\ VolumesListLock = {RLock}
    /\ Published("v1") /\ list["v1"] # "rw" /\ mountTable["v1"] # "rw"
    /\ \A w \in Workers : ~InFlight(w)
    /\ ReqMountList = {}

\* ------------------------------------------------ mount options (C14)

\* requests that publish read-write or read-only
AnyOptions == BOOLEAN

\* calls that come one after the other and may ask for a read-only mount,
\* the supervisor, the repair goroutines and the kernel
NextOptions ==
    \/ Publishes(OneAtATime, Vols, AnyOptions)
    \/ Unpublishes(OneAtATime, Vols)
    \/ Repair
    \/ \E v \in Vols : KernelChange(v)

SpecOptions == Init /\ [][NextOptions]_vars

\* C14: MonitorMounts and its repair workers keep every registered volume
\* mounted with the options it was published with: the sweep spawns no
\* worker for a volume its mount table shows mounted with the declared
\* options (a readOnly volume mounted read-only is not treated as needing
\* repair), and no step of a repair worker leaves the volume mounted with
\* options other than the declared ones.
C14_OriginalOptionsPreserved ==
    [][\A w \in Workers :
          /\ ~InFlight(w) /\ InFlight(w)' =>
                list[wname'[w]] # MountedAs(wvol'[w])
          /\ RepairActs(w) /\ mountTable'[wname[w]] # mountTable[wname[w]] =>
                mountTable'[wname[w]] \in {"none", MountedAs(wvol[w])}]_vars

\* ------------------------------------------- parallel repairs (C15)

\* the node at the moment NodePublishVolume has returned Success for v1 and
\* then for v2, read-write, with no call in flight: the state the run
\* PublishStart .. PublishFinalize for v1, then for v2, reaches from Init
BothPublished ==
    /\ Volumes = [v \in VolIds |-> IF v = "v1" THEN 1 ELSE 2]
    /\ DevicePath = [o \in ObjIds |-> IF o = 1 THEN "/dev/sdb"
                                     ELSE IF o = 2 THEN "/dev/sdc" ELSE ""]
    /\ ReadOnly = [o \in ObjIds |-> FALSE]
    /\ VolumesListLock = {} /\ ReqMountList = {} /\ ReqMountListLock = {}
    /\ mountTable = [v \in VolIds |-> "rw"]
    /\ CR = [v \in VolIds |-> {Self}]
    /\ mode = [v \in VolIds |-> "0000"]
    /\ pc = [h \in Handlers |-> "idle"]
    /\ op = [h \in Handlers |-> "none"]
    /\ volumeID = [h \in Handlers |-> ""]
    /\ readOnly = [h \in Handlers |-> FALSE]
    /\ vol = [h \in Handlers |-> NoObj]
    /\ reVerified = [h \in Handlers |-> FALSE]
    /\ devicePath = [h \in Handlers |-> ""]
    /\ response = Answer(Success, "finalize")
    /\ mpc = "tick" /\ list = [v \in VolIds |-> "none"] /\ todo = {} /\ cur = ""
    /\ wpc = [w \in Workers |-> "idle"]
    /\ wexists = [w \in Workers |-> FALSE]
    /\ wvol = [w \in Workers |-> NoObj]
    /\ wname = [w \in Workers |-> ""]
    /\ sleeps = [h \in Handlers |-> 0]
    /\ created = [v \in VolIds |-> 1]
    /\ torn = [o \in ObjIds |-> 0]
    /\ rtv = [v \in VolIds |-> "pubok"]
    /\ NoWaiter(waiter, probe, ppc, retries, perr, attempts, pass, passes, acted)

\* two published volumes left to the supervisor, the repair goroutines and
\* the kernel
NextParallel ==
    \/ Repair
    \/ \E v \in VolIds : KernelChange(v)

\* the supervisor goes on and gets the locks it waits for, and a goroutine
\* inside the critical section of lines 338-342 leaves it; a goroutine in its
\* readiness wait or in a mount call may stay there for ever
SpecParallel ==
    /\ BothPublished /\ [][NextParallel]_vars
    /\ SF_vars(Supervised)
    /\ \A w \in Workers : WF_vars(RemountDone(w))

\* the calls that lead from Init to BothPublished
SpecSetup == Init /\ [][Publishes(OneAtATime, VolIds, Writable)]_vars

\* goroutine w is in WaitForVolumeReadyAndReachable or in a mount call for v
Blocked(w, v) == wpc[w] \in {"waiting", "mount"} /\ wname[w] = v

\* v has its devicePath and is missing from the mount table or not mounted rw
NeedsRepair(v) == Published(v) /\ mountTable[v] # "rw"

\* C15: a repair goroutine that stays in its readiness wait or in a mount call
\* for one volume does not keep the supervisor from finishing its sweeps and
\* from spawning, on a later tick, a goroutine for another volume that has
\* its devicePath and is not mounted rw.
C15_ParallelProgress ==
    \A w \in Workers : \A v, x \in VolIds :
        v # x =>
            ((Blocked(w, v) /\ NeedsRepair(x))
                ~> (~Blocked(w, v) \/ \E u \in Workers : InFlight(u) /\ wname[u] = x))

\* C15 witness: the goroutine for v1 is still in its readiness wait, the
\* sweep has spawned a goroutine for v2, which has gone further than the one
\* for v1, and the supervisor is back at its ticker.
C15_Witness ==
    \E w, u \in Workers :
        /\ Blocked(w, "v1") /\ wpc[w] = "waiting"
        /\ wname[u] = "v2" /\ wpc[u] = "deleting"
        /\ mpc = "tick"

\* ------------------------------- the wait functions of utils (C16, C17)

\* VolumeWaitRetryCount (line 30)
VolumeWaitRetryCount == 6

\* what getVolStatus can read from the cstorVolume CR
Statuses == {"Healthy", "Degraded", "Init", "Offline"}

\* volStatus == "Healthy" || volStatus == "Degraded" (line 172)
IsReady(volStatus) == volStatus \in {"Healthy", "Degraded"}

\* a bounded probe is entered: var retries int
Enter(p) ==
    /\ probe' = p
    /\ ppc' = "check"
    /\ retries' = 0
    /\ attempts' = 0
    /\ perr' = "none"

\* the probe returns e to its caller
Leave(e) ==
    /\ ppc' = "returned"
    /\ perr' = e
    /\ pass' = Append(pass, <<probe, e>>)
    /\ UNCHANGED probe

\* the probe goes to its time.Sleep
ToSleep ==
    /\ ppc' = "sleep"
    /\ UNCHANGED <<probe, perr, pass>>

\* a caller such as NodePublishVolume (line 155) calls WaitForVolumeToBeReady
WaitForVolumeToBeReady ==
    /\ waiter = "none"
    /\ waiter' = "publish"
    /\ Enter("ready")
    /\ pass' = <<>>
    /\ UNCHANGED <<passes, acted, nodevars>>

\* checkVolumeStatus: one status query and the branch on it (lines 167-181, 186)
CheckVolumeStatus ==
    /\ probe = "ready" /\ ppc = "check"
    /\ attempts' = attempts + 1
    /\ \E err \in BOOLEAN, volStatus \in Statuses :
          IF err THEN Leave("error")
          ELSE IF IsReady(volStatus) THEN Leave("nil")
          ELSE IF retries >= VolumeWaitRetryCount THEN Leave("NotReady")
          ELSE ToSleep
    /\ UNCHANGED <<waiter, retries, passes, acted, nodevars>>

\* time.Sleep; retries++; goto checkVolumeStatus (lines 182-184)
ReadySleep ==
    /\ probe = "ready" /\ ppc = "sleep"
    /\ retries' = retries + 1
    /\ ppc' = "check"
    /\ UNCHANGED <<waiter, probe, perr, attempts, pass, passes, acted, nodevars>>

\* a caller such as NodePublishVolume (line 162) calls WaitForVolumeToBeReachable
WaitForVolumeToBeReachable ==
    /\ waiter = "none"
    /\ waiter' = "publish"
    /\ Enter("reachable")
    /\ pass' = <<>>
    /\ UNCHANGED <<passes, acted, nodevars>>

\* net.Dial("tcp", targetPortal) (lines 141-145)
Dial ==
    /\ probe = "reachable" /\ ppc = "check"
    /\ attempts' = attempts + 1
    /\ \/ Leave("nil")
       \/ ToSleep
    /\ UNCHANGED <<waiter, retries, passes, acted, nodevars>>

\* time.Sleep; retries++; the test of the bound (lines 149-158)
DialSleep ==
    /\ probe = "reachable" /\ ppc = "sleep"
    /\ retries' = retries + 1
    /\ IF retries' >= VolumeWaitRetryCount
       THEN Leave("NotReachable")
       ELSE ppc' = "check" /\ UNCHANGED <<probe, perr, pass>>
    /\ UNCHANGED <<waiter, attempts, passes, acted, nodevars>>

\* the caller of a single probe has its answer and goes on
ProbeReturns ==
    /\ waiter = "publish" /\ ppc = "returned"
    /\ NoWaiter(waiter', probe', ppc', retries', perr', attempts', pass', passes', acted')
    /\ UNCHANGED nodevars

\* RemountVolume calls WaitForVolumeReadyAndReachable (line 324), which
\* calls WaitForVolumeToBeReady (line 293)
WaitForVolumeReadyAndReachable ==
    /\ waiter = "none"
    /\ waiter' = "remount"
    /\ Enter("ready")
    /\ pass' = <<>>
    /\ UNCHANGED <<passes, acted, nodevars>>

\* the unbounded wait returns whatever the reachability probe said
BothMet_Any(e) == TRUE

\* err == nil of the reachability probe (line 299)
BothMet(e) == e = "nil"

\* the for loop of the unbounded wait has the answer of a probe
\* (lines 291-304)
WaitNext ==
    /\ waiter = "remount" /\ ppc = "returned"
    /\ \/ /\ probe = "ready" /\ perr # "nil"            \* continue
          /\ Enter("ready")
          /\ pass' = <<>>
          /\ passes' = Inc(passes)
       \/ /\ probe = "ready" /\ perr = "nil"
          /\ Enter("reachable")
          /\ UNCHANGED <<pass, passes>>
       \/ /\ probe = "reachable" /\ BothMet(perr)        \* return
          /\ ppc' = "back"
          /\ UNCHANGED <<probe, retries, perr, attempts, pass, passes>>
       \/ /\ probe = "reachable" /\ ~BothMet(perr)
          /\ Enter("ready")
          /\ pass' = <<>>
          /\ passes' = Inc(passes)
    /\ UNCHANGED <<waiter, acted, nodevars>>

\* RemountVolume goes on after line 324: Unmount and Mount, or
\* AttachAndMountDisk (lines 325-337)
RemountProceeds ==
    /\ waiter = "remount" /\ ppc = "back"
    /\ acted' = TRUE
    /\ ppc' = "repair"
    /\ UNCHANGED <<waiter, probe, retries, perr, attempts, pass, passes, nodevars>>

\* RemountVolume returns (line 343)
RemountReturns ==
    /\ waiter = "remount" /\ ppc = "repair"
    /\ NoWaiter(waiter', probe', ppc', retries', perr', attempts', pass', passes', acted')
    /\ UNCHANGED nodevars

\* one caller at a time inside the wait functions, with every answer of the
\* control plane and of the portal
NextProbe ==
    \/ WaitForVolumeToBeReady
    \/ CheckVolumeStatus
    \/ ReadySleep
    \/ WaitForVolumeToBeReachable
    \/ Dial
    \/ DialSleep
    \/ ProbeReturns
    \/ WaitForVolumeReadyAndReachable
    \/ WaitNext
    \/ RemountProceeds
    \/ RemountReturns

SpecProbe == Init /\ [][NextProbe]_vars

\* C16: with R = VolumeWaitRetryCount, neither bounded probe makes an
\* (R+1)-th attempt; WaitForVolumeToBeReady returns its not-ready error
\* after exactly R status queries and WaitForVolumeToBeReachable its error
\* after exactly R failed dials; a success comes with an attempt 1..R.
C16_BoundedProbes ==
    /\ attempts <= VolumeWaitRetryCount
    /\ ppc = "returned" /\ perr \in {"NotReady", "NotReachable"} =>
          attempts = VolumeWaitRetryCount
    /\ ppc = "returned" /\ perr = "nil" => attempts \in 1..VolumeWaitRetryCount

\* the pass in which both probes succeeded, the readiness probe first
BothSucceeded == << <<"ready", "nil">>, <<"reachable", "nil">> >>

\* C17: RemountVolume makes no unmount, mount or attach before
\* WaitForVolumeReadyAndReachable has returned, and that function returns
\* only at the end of a pass in which the readiness probe succeeded and then
\* the reachability probe succeeded; a probe that fails starts a new pass
\* with the readiness probe, whatever the number of passes given up so far.
C17_ReadinessFirst ==
    [][/\ acted' => ppc \in {"back", "repair"} /\ waiter = "remount"
       /\ ppc' = "back" => pass' = BothSucceeded /\ ppc = "returned"
       /\ waiter = "remount" /\ ppc = "returned" /\ perr # "nil" =>
             /\ waiter' = "remount" /\ probe' = "ready" /\ ppc' = "check"
             /\ pass' = <<>> /\ ~acted']_vars

\* C17 witness: the wait has given up the bound of passes the model counts,
\* the last of them on the reachability probe, and has then returned after a
\* pass with both probes succeeding; RemountVolume has gone on.
C17_Witness ==
    /\ waiter = "remount" /\ acted /\ ppc = "repair"
    /\ passes = MaxCount
    /\ pass = BothSucceeded

\* ------------------------------------- the two locks (C18, C19, C20)

\* C18: a handler holds VolumesListLock over more than its registry read or
\* write only in NodePublishVolume between DeleteOldCSIVolumeCR and
\* CreateCSIVolumeCR; no handler holds it in its sleep, its chmod, its
\* attach, its teardown, or after it has returned; the supervisor holds it in
\* read mode only, and only while it ranges over the registry; nobody else
\* holds it.
C18_VolumesLockDiscipline ==
    /\ \A h \in Handlers :
          WLock(h) \in VolumesListLock => pc[h] \in {"deleteOld", "createCR"}
    /\ RLock \in VolumesListLock => mpc \in {"loop", "mark"}
    /\ VolumesListLock \in {{}, {RLock}} \cup {{WLock(h)} : h \in Handlers}

\* C18 witness: a handler is between DeleteOldCSIVolumeCR and
\* CreateCSIVolumeCR with the lock, the supervisor waits for its RLock, and a
\* repair goroutine is in its readiness wait.
C18_Witness ==
    /\ \E h \in Handlers : pc[h] = "createCR" /\ VolumesListLock = {WLock(h)}
    /\ mpc = "rlock"
    /\ \E w \in Workers : wpc[w] = "waiting"

\* the sweep reads ReqMountList[v] with this step (line 271)
ReadsRepairSet(v) ==
    /\ mpc = "loop" /\ v \in todo
    /\ v \notin todo'
    /\ ~PublishNotCompleted(Volumes[v]) /\ ~InGoodShape(v)

\* C19: every access to ReqMountList is made by a task that holds
\* ReqMountListLock: the membership test of the sweep is never made while a
\* repair goroutine holds the lock for its delete, and the set only changes
\* by the insertion of the sweep, made with the lock free for it, or by the
\* delete of the goroutine that holds the lock.
C19_RepairSetGuarded ==
    [][/\ \A v \in VolIds : ReadsRepairSet(v) => ReqMountListLock = {}
       /\ ReqMountList' # ReqMountList /\ mpc' # "dead" =>
             \/ mpc = "mark" /\ ReqMountListLock = {}
             \/ \E w \in Workers : wpc[w] = "deleting" /\ ReqMountListLock = {WLock(w)}]_vars

\* C20: no task asks for VolumesListLock while it holds ReqMountListLock, and
\* a task that holds both took VolumesListLock first; so the holder of
\* ReqMountListLock can always go on, a handler that holds VolumesListLock
\* can always go on, and the supervisor that holds VolumesListLock can go on
\* or waits for ReqMountListLock only: the handlers, the supervisor and the
\* repair goroutines never wait for each other in a cycle.
C20_LockOrdering ==
    /\ \A w \in Workers :
          WLock(w) \in ReqMountListLock =>
              wpc[w] = "deleting" /\ ENABLED RemountDone(w)
    /\ ReqMountListLock \in {{}} \cup {{WLock(w)} : w \in Workers}
    /\ \A h \in Handlers :
          WLock(h) \in VolumesListLock =>
              ENABLED (PublishDeleteOld(h) \/ PublishCreateCR(h))
    /\ RLock \in VolumesListLock =>
          \/ ENABLED (MonitorRUnlock \/ \E v \in VolIds : MonitorVisit(v))
          \/ ENABLED MonitorMark
          \/ mpc = "mark" /\ ReqMountListLock # {}

\* C20 witness: the longest chain of waiting: the handler waits for
\* VolumesListLock, which the supervisor holds while it waits for
\* ReqMountListLock, which a repair goroutine holds inside its delete.
C20_Witness ==
    /\ \E h \in Handlers : pc[h] \in {"verifyPublish", "remove", "finalize"}
    /\ VolumesListLock = {RLock} /\ mpc = "mark"
    /\ \E w \in Workers : ReqMountListLock = {WLock(w)} /\ wpc[w] = "deleting"

\* ------------------------------------------ unpublish and repair frames

\* C21: NodeUnpublishVolume deletes this node's CR only after its own
\* UnmountAndDetachDisk succeeded; when the teardown fails the call is
\* answered Internal, the CR stays, and the record, removed before, is not
\* put back; a later NodeUnpublishVolume that finds no record is answered
\* Success and neither tears down nor deletes the CR.
C21_TeardownFailure ==
    [][/\ \A v \in VolIds :
             Self \in CR[v] /\ Self \notin CR'[v] =>
                 \E h \in Handlers : StepFrom(h, "deleteCR") /\ volumeID[h] = v
       /\ \A h \in Handlers :
          LET v == volumeID[h]
          IN  /\ StepFrom(h, "teardown") =>
                 \/ /\ pc'[h] = "deleteCR" /\ mountTable'[v] = "none" /\ Quiet
                 \/ /\ response' = Answer(Internal, "teardown") /\ pc'[h] = "idle"
                    /\ UNCHANGED <<CR, Volumes>>
                    /\ Volumes[v] # vol[h]
              /\ pc'[h] = "deleteCR" => pc[h] \in {"teardown", "deleteCR"}
              /\ StepFrom(h, "remove") /\ ~Registered(v) =>
                    /\ response' = Answer(Success, "remove")
                    /\ UNCHANGED <<CR, mountTable, torn, Volumes>>]_vars

\* C21 witness: an unpublish of v1 failed in its teardown and left the mount
\* and this node's CR with no record; the next unpublish of v1 has just been
\* answered Success, and the CR and the mount are still there.
C21_Witness ==
    /\ response = Answer(Success, "remove")
    /\ Volumes["v1"] = NoObj /\ Self \in CR["v1"] /\ mountTable["v1"] # "none"
    /\ \A h \in Handlers : pc[h] = "idle"

\* the supervisor or a repair goroutine takes this step (the abort of the
\* process is not a step of theirs)
RepairStep ==
    /\ mpc' # "dead"
    /\ mpc' # mpc \/ todo' # todo \/ wpc' # wpc

\* C22: no step of the sweep and no step of a repair goroutine, whether its
\* repair succeeds or fails, inserts, removes or changes a registry record
\* or the devicePath of one, or touches a CR; besides the mounts they change
\* the membership of the repair set only. A record leaves the registry only
\* by the removal step of NodeUnpublishVolume.
C22_RepairLeavesRegistry ==
    [][/\ RepairStep =>
             /\ UNCHANGED <<Volumes, ReadOnly, CR, mode>>
             /\ \A v \in VolIds :
                   Record(v) # NoObj => DevicePath'[Record(v)] = DevicePath[Record(v)]
       /\ \A v \in VolIds :
             Record(v) # NoObj /\ Volumes'[v] # Record(v) /\ mpc' # "dead" =>
                 \E h \in Handlers :
                     /\ StepFrom(h, "remove") /\ op[h] = "unpublish"
                     /\ volumeID[h] = v]_vars

\* C22 witness: a repair goroutine for v1 has unmounted, its mount has
\* failed, and it is inside its delete; the record it was started for is
\* still the registered one, with its devicePath.
C22_Witness ==
    \E w \in Workers :
        /\ wpc[w] = "deleting" /\ wexists[w] /\ wname[w] = "v1"
        /\ mountTable["v1"] = "none"
        /\ wvol[w] = Record("v1") /\ DevicePath[Record("v1")] # ""
        /\ ReqMountList = {"v1"}

\* C23: when NodePublishVolume is answered Success from its finalize step,
\* the record the registry holds for the volumeID at that moment has a
\* devicePath, also when an unpublish, and another publish after it, ran
\* while the call was in its attach.
C23_FinalizeWritesRegistered ==
    [][\A h \in Handlers :
          StepFrom(h, "finalize") /\ response' = Answer(Success, "finalize")
          /\ Volumes'[volumeID[h]] # NoObj =>
              DevicePath'[Volumes'[volumeID[h]]] # ""]_vars

\* C24: whenever the registry holds a record for a volumeID, the CSIVolume
\* CR this node created for it is there: this node created it before the
\* insertion and has not deleted it since.
C24_OwnershipPrecedesRegistration ==
    \A v \in VolIds : Volumes[v] # NoObj => Self \in CR[v]

====
